---------------------------- MODULE Spec2Model ----------------------------
(***************************************************************************)
(* Model of telegram_scraper.py: the TelegramFileScraper class and main(). *)
(*                                                                         *)
(* Strings are sequences of one-character strings, so that lower(),        *)
(* endswith(), replace() and f-string concatenation are computed the way   *)
(* Python computes them.  Optional values are tagged records: None, an     *)
(* attribute the object does not have (hasattr is false), or Str(chars).   *)
(* file_size_mb is kept in hundredths of a megabyte (1.5 MB is 150).       *)
(* FileRecord keeps the fields filename, message_id, sender and            *)
(* file_size_mb; date, caption and message_url are computed from the       *)
(* message alone, are read by no later step, and are left out.             *)
(***************************************************************************)
EXTENDS Integers, Sequences, FiniteSets, TLC

VARIABLES
    pc,          \* position of main(): the statement that runs next
    mode,        \* the entry point of the run: "main", or the method called
    API_ID,      \* TRUE when API_ID and API_HASH are configured (config.py)
    args,        \* argparse result: limit, types, output, json
    scraper,     \* TRUE once the local `scraper` of main() is bound
    files,       \* self.files, the Collector
    scanned,     \* messages yielded so far by client.iter_messages
    fs,          \* the file system: path -> file content
    console,     \* the lines printed so far, as event tags
    summary,     \* what print_summary printed
    connects,    \* calls of client.connect()
    disconnects, \* calls of client.disconnect()
    uncaught,    \* TRUE when main() ended by an exception
    call         \* a direct call of a pure method: its arguments and result

vars == <<pc, mode, API_ID, args, scraper, files, scanned, fs, console,
          summary, connects, disconnects, uncaught, call>>

---------------------------------------------------------------------------
(* Bounds of the model *)

MaxLimit == 3
MaxFiles == 11
MaxNameLen == 3

---------------------------------------------------------------------------
(* Values *)

None == [tag |-> "None"]
NoAttr == [tag |-> "absent"]
Str(chars) == [tag |-> "str", s |-> chars]

\* Python truthiness of an optional string: None and "" are falsy.
Truthy(v) == v.tag = "str" /\ v.s # <<>>

\* str(v) as an f-string formats it
Format(v) == IF v.tag = "str" THEN v.s ELSE <<"N", "o", "n", "e">>

ToLower ==
    [A |-> "a", B |-> "b", C |-> "c", D |-> "d", E |-> "e", F |-> "f",
     G |-> "g", H |-> "h", I |-> "i", J |-> "j", K |-> "k", L |-> "l",
     M |-> "m", N |-> "n", O |-> "o", P |-> "p", Q |-> "q", R |-> "r",
     S |-> "s", T |-> "t", U |-> "u", V |-> "v", W |-> "w", X |-> "x",
     Y |-> "y", Z |-> "z"]

LowerChar(c) == IF c \in DOMAIN ToLower THEN ToLower[c] ELSE c

\* str.lower()
Lower(s) == [i \in 1..Len(s) |-> LowerChar(s[i])]

\* str.endswith(suffix)
EndsWith(s, suffix) ==
    /\ Len(suffix) <= Len(s)
    /\ SubSeq(s, Len(s) - Len(suffix) + 1, Len(s)) = suffix

\* str.replace(old, new): every non-overlapping occurrence, left to right
RECURSIVE Replace(_, _, _)
Replace(s, old, new) ==
    IF Len(s) < Len(old) THEN s
    ELSE IF SubSeq(s, 1, Len(old)) = old
         THEN new \o Replace(SubSeq(s, Len(old) + 1, Len(s)), old, new)
         ELSE <<Head(s)>> \o Replace(Tail(s), old, new)

---------------------------------------------------------------------------
(* is_target_file *)

DefaultFileTypes ==
    << <<".", "e", "x", "4">>, <<".", "e", "x", "5">>,
       <<".", "m", "q", "4">>, <<".", "m", "q", "5">>,
       <<".", "z", "i", "p">>, <<".", "r", "a", "r">>, <<".", "7", "z">>,
       <<".", "p", "d", "f">>, <<".", "d", "o", "c">>,
       <<".", "d", "o", "c", "x">>, <<".", "t", "x", "t">>,
       <<".", "j", "p", "g">>, <<".", "j", "p", "e", "g">>,
       <<".", "p", "n", "g">>, <<".", "g", "i", "f">>,
       <<".", "m", "p", "4">>, <<".", "a", "v", "i">>, <<".", "m", "k", "v">>,
       <<".", "p", "y">>, <<".", "j", "s">>, <<".", "h", "t", "m", "l">> >>

\* file_types is None or TypeList(list), list a sequence of extensions
is_target_file(filename, file_types) ==
    IF ~Truthy(filename) THEN FALSE
    ELSE LET types == IF file_types = None THEN DefaultFileTypes
                      ELSE file_types.list
             filename_lower == Lower(filename.s)
         IN  \E i \in 1..Len(types) : EndsWith(filename_lower, types[i])

TypeList(list) == [tag |-> "list", list |-> list]

---------------------------------------------------------------------------
(* _get_sender_name *)

\* message.sender is None, or an object whose attributes first_name,
\* last_name, username are each NoAttr (the object has no such attribute),
\* None, or a string.
NoSender == [tag |-> "None"]
Sender(first, last, user) ==
    [tag |-> "obj", first_name |-> first, last_name |-> last, username |-> user]

hasattr(v) == v # NoAttr

_get_sender_name(sender) ==
    IF sender.tag = "None" THEN Str(<<"U", "n", "k", "n", "o", "w", "n">>)
    ELSE IF hasattr(sender.first_name)
         THEN IF hasattr(sender.last_name) /\ Truthy(sender.last_name)
              THEN Str(Format(sender.first_name) \o <<" ">> \o Format(sender.last_name))
              ELSE sender.first_name
         ELSE IF hasattr(sender.username) /\ Truthy(sender.username)
              THEN Str(<<"@">> \o sender.username.s)
              ELSE Str(<<"U", "n", "k", "n", "o", "w", "n">>)

---------------------------------------------------------------------------
(* scrape_group: one message of the stream *)

\* A message of the stream.  media is "none", "photo" or "document"
\* (MessageMediaDocument); doc.file_name is the file_name of the document's
\* DocumentAttributeFilename (NoAttr: the document has no such attribute);
\* doc.name is the document's `name` attribute; doc.size is in bytes, 0 also
\* standing for a size that is None.
Doc(file_name, name, size) == [file_name |-> file_name, name |-> name, size |-> size]
NoDoc == Doc(NoAttr, NoAttr, 0)
Message(id, media, doc, sender) ==
    [id |-> id, media |-> media, doc |-> doc, sender |-> sender]

\* lines 107-117: the filename attribute, else the document's name
ResolveFilename(doc) ==
    LET fromAttr == IF doc.file_name # NoAttr THEN doc.file_name ELSE None
    IN  IF ~Truthy(fromAttr) /\ hasattr(doc.name) THEN doc.name ELSE fromAttr

\* round(x / y, 2) in hundredths: round(100 * x / y), half to even
RoundHundredths(x, y) ==
    LET q == (100 * x) \div y
        r == (100 * x) % y
    IN  IF 2 * r > y \/ (2 * r = y /\ q % 2 = 1) THEN q + 1 ELSE q

file_size_mb(size) ==
    IF size # 0 THEN RoundHundredths(size, 1024 * 1024) ELSE 0

file_info(message, filename) ==
    [filename |-> filename.s,
     message_id |-> message.id,
     sender |-> _get_sender_name(message.sender),
     file_size_mb |-> file_size_mb(message.doc.size)]

\* scrape_message with the record put in front of the Collector
scrape_message_prepend(collector, message, file_types) ==
    IF message.media = "document"
    THEN LET filename == ResolveFilename(message.doc)
         IN  IF Truthy(filename) /\ is_target_file(filename, file_types)
             THEN <<file_info(message, filename)>> \o collector
             ELSE collector
    ELSE collector

\* The body of the `async for` loop: self.files after `message`.
scrape_message(collector, message, file_types) ==
    IF message.media = "document"
    THEN LET filename == ResolveFilename(message.doc)
         IN  IF Truthy(filename) /\ is_target_file(filename, file_types)
             THEN Append(collector, file_info(message, filename))
             ELSE collector
    ELSE collector

---------------------------------------------------------------------------
(* Exporters *)

NoFile == [kind |-> "absent", header |-> <<>>, rows |-> <<>>]

fieldnames == <<"filename", "message_id", "sender", "file_size_mb">>

\* csv.DictWriter.writerows: one row per dict, the values in fieldnames order
\* and None written as the empty string
csv_cell(record, field) ==
    IF field = "sender"
    THEN (IF record.sender = None THEN <<>> ELSE record.sender.s)
    ELSE record[field]

\* csv_rows without the last record
csv_rows_short(collector) ==
    [i \in 1..(Len(collector) - 1) |->
        [j \in 1..Len(fieldnames) |-> csv_cell(collector[i], fieldnames[j])]]

csv_rows(collector) ==
    [i \in 1..Len(collector) |->
        [j \in 1..Len(fieldnames) |-> csv_cell(collector[i], fieldnames[j])]]

csv_file(collector) ==
    [kind |-> "csv", header |-> fieldnames, rows |-> csv_rows(collector)]

\* json.dump of the list: an array with one object per dict
json_file(collector) ==
    [kind |-> "json", header |-> <<>>, rows |-> collector]

\* args.output.replace('.csv', '.json')
json_path(output) ==
    Replace(output, <<".", "c", "s", "v">>, <<".", "j", "s", "o", "n">>)

---------------------------------------------------------------------------
(* print_summary *)

TopN == 10

\* sorted(..., key=file_size_mb, reverse=True) is stable: an element goes
\* behind every element that is at least as large.
\* InsertDesc that puts an element in front of its equals
RECURSIVE InsertDescUnstable(_, _)
InsertDescUnstable(s, r) ==
    IF s = <<>> THEN <<r>>
    ELSE IF Head(s).file_size_mb > r.file_size_mb
         THEN <<Head(s)>> \o InsertDescUnstable(Tail(s), r)
         ELSE <<r>> \o s

RECURSIVE InsertDesc(_, _)
InsertDesc(s, r) ==
    IF s = <<>> THEN <<r>>
    ELSE IF Head(s).file_size_mb >= r.file_size_mb
         THEN <<Head(s)>> \o InsertDesc(Tail(s), r)
         ELSE <<r>> \o s

RECURSIVE SortedPrefix(_, _)
SortedPrefix(collector, n) ==
    IF n = 0 THEN <<>>
    ELSE InsertDesc(SortedPrefix(collector, n - 1), collector[n])

sorted_files(collector) ==
    LET all == SortedPrefix(collector, Len(collector))
    IN  SubSeq(all, 1, IF Len(all) < TopN THEN Len(all) ELSE TopN)

RECURSIVE total_size(_, _)
total_size(collector, n) ==
    IF n = 0 THEN 0 ELSE total_size(collector, n - 1) + collector[n].file_size_mb

NoSummary == [printed |-> FALSE, total_files |-> 0, total_size |-> 0, top |-> <<>>]

summary_of(collector) ==
    [printed |-> TRUE,
     total_files |-> Len(collector),
     total_size |-> total_size(collector, Len(collector)),
     top |-> sorted_files(collector)]

---------------------------------------------------------------------------
(* The inputs of a run of main() *)

OutputPaths ==
    { <<"o", ".", "c", "s", "v">>,
      <<"o", ".", "t", "x", "t">>,
      <<"o", ".", "c", "s", "v", ".", "c", "s", "v">> }

Paths == OutputPaths \cup { json_path(p) : p \in OutputPaths }

TypeChoices ==
    { None,
      TypeList(<< <<".", "z", "i", "p">>, <<".", "e", "x", "e">> >>) }

ArgsSet ==
    [limit : 0..MaxLimit, types : TypeChoices, output : OutputPaths, json : BOOLEAN]

UserAl == Sender(Str(<<"A", "l">>), None, NoAttr)
ChannelCh == Sender(NoAttr, NoAttr, Str(<<"c", "h">>))

\* The messages the stream may yield as its next one
StreamMessages(id) ==
    { Message(id, "photo", NoDoc, UserAl),
      Message(id, "document",
              Doc(Str(<<"a", ".", "Z", "i", "p">>), NoAttr, 1572864), UserAl),
      Message(id, "document",
              Doc(Str(<<"b", ".", "e", "x", "e">>), NoAttr, 5000), NoSender),
      Message(id, "document",
              Doc(Str(<<>>), Str(<<"c", ".", "e", "x", "4">>), 0), ChannelCh),
      Message(id, "document",
              Doc(NoAttr, Str(<<"d", ".", "z", "i", "p">>), 1572864), NoSender),
      Message(id, "document", Doc(NoAttr, NoAttr, 2097152), UserAl) }

NoCall == [fn |-> "none"]

FreshFs == { [p \in Paths |-> NoFile],
             [p \in Paths |-> [kind |-> "old", header |-> <<>>, rows |-> <<>>]] }

Init ==
    /\ pc = "construct"
    /\ mode = "main"
    /\ API_ID \in BOOLEAN
    /\ args \in ArgsSet
    /\ scraper = FALSE
    /\ files = <<>>
    /\ scanned = <<>>
    /\ fs \in FreshFs
    /\ console = <<>>
    /\ summary = NoSummary
    /\ connects = 0
    /\ disconnects = 0
    /\ uncaught = FALSE
    /\ call = NoCall

---------------------------------------------------------------------------
(* main() and the methods it calls *)

\* print(...): `lines` are appended to the console
print(lines) == console' = console \o lines

\* Where an exception raised inside main()'s try block goes
Raise == "except"

\* TelegramFileScraper.__init__
Construct ==
    /\ pc = "construct"
    /\ IF API_ID
       THEN scraper' = TRUE /\ pc' = "connect"
       ELSE scraper' = FALSE /\ pc' = Raise
    /\ UNCHANGED <<mode, API_ID, args, files, scanned, fs, console, summary,
                   connects, disconnects, uncaught, call>>

\* connect(): client.connect(), is_user_authorized(), start(); any may raise
Connect ==
    /\ pc = "connect"
    /\ connects' = connects + 1
    /\ \E ok \in BOOLEAN :
          IF ok THEN print(<<"connecting", "connected">>) /\ pc' = "scrape"
          ELSE print(<<"connecting">>) /\ pc' = Raise
    /\ UNCHANGED <<mode, API_ID, args, scraper, files, scanned, fs, summary,
                   disconnects, uncaught, call>>

\* scrape_group, lines 90-101: get_entity and entity.title inside try/except
\* get_entity's failure raised to main() instead of handled
AfterGetEntityErrorRaised == Raise

AfterGetEntityError == "export_csv"

GetEntity ==
    /\ pc = "scrape"
    /\ \E ok \in BOOLEAN :
          IF ok THEN print(<<"scraping", "group">>) /\ pc' = "iter"
          ELSE print(<<"scraping", "error_getting_group">>)
               /\ pc' = AfterGetEntityError
    /\ UNCHANGED <<mode, API_ID, args, scraper, files, scanned, fs, summary,
                   connects, disconnects, uncaught, call>>

\* scrape_group, lines 103-131: the stream yields one more message
IterMessage ==
    /\ pc = "iter"
    /\ Len(scanned) < args.limit
    /\ \E message \in StreamMessages(MaxLimit + 1 - Len(scanned)) :
          /\ scanned' = Append(scanned, message)
          /\ files' = scrape_message(files, message, args.types)
          /\ IF files' # files THEN print(<<"file">>) ELSE UNCHANGED console
    /\ UNCHANGED <<pc, mode, API_ID, args, scraper, fs, summary, connects,
                   disconnects, uncaught, call>>

\* scrape_group, line 133: the stream ends (exhausted, or `limit` reached)
IterEnd ==
    /\ pc = "iter"
    /\ print(<<"found">>)
    /\ pc' = "export_csv"
    /\ UNCHANGED <<mode, API_ID, args, scraper, files, scanned, fs, summary,
                   connects, disconnects, uncaught, call>>

\* Where an exception raised by iter_messages goes: scrape_group has no
\* handler around the loop
\* iter_messages' failure handled like get_entity's
AfterIterErrorSwallowed == "export_csv"

AfterIterError == Raise

IterFail ==
    /\ pc = "iter"
    /\ Len(scanned) < args.limit
    /\ pc' = AfterIterError
    /\ UNCHANGED <<mode, API_ID, args, scraper, files, scanned, fs, console,
                   summary, connects, disconnects, uncaught, call>>

\* main(), lines 249-252
AfterExportCsv == IF args.json THEN "export_json" ELSE "summary"

\* export_csv without the guard on an empty Collector
export_csv_unguarded(collector, old) == csv_file(collector)

\* What export_csv leaves at the path
export_csv(collector, old) == IF collector = <<>> THEN old ELSE csv_file(collector)

ExportCsv ==
    /\ pc = "export_csv"
    /\ \/ /\ files = <<>>
          /\ print(<<"no_files_to_export">>)
          /\ fs' = [fs EXCEPT ![args.output] = export_csv(files, @)]
          /\ pc' = AfterExportCsv
       \/ /\ files # <<>>
          /\ fs' = [fs EXCEPT ![args.output] = export_csv(files, @)]
          /\ print(<<"exported">>)
          /\ pc' = AfterExportCsv
       \/ /\ files # <<>>          \* open() raises
          /\ UNCHANGED <<fs, console>>
          /\ pc' = Raise
    /\ UNCHANGED <<mode, API_ID, args, scraper, files, scanned, summary,
                   connects, disconnects, uncaught, call>>

AfterExportJson == "summary"

export_json(collector, old) == IF collector = <<>> THEN old ELSE json_file(collector)

ExportJson ==
    /\ pc = "export_json"
    /\ \/ /\ files = <<>>
          /\ print(<<"no_files_to_export">>)
          /\ fs' = [fs EXCEPT ![json_path(args.output)] = export_json(files, @)]
          /\ pc' = AfterExportJson
       \/ /\ files # <<>>
          /\ fs' = [fs EXCEPT ![json_path(args.output)] = export_json(files, @)]
          /\ print(<<"exported">>)
          /\ pc' = AfterExportJson
       \/ /\ files # <<>>          \* open() raises
          /\ UNCHANGED <<fs, console>>
          /\ pc' = Raise
    /\ UNCHANGED <<mode, API_ID, args, scraper, files, scanned, summary,
                   connects, disconnects, uncaught, call>>

print_summary(collector, old) == IF collector = <<>> THEN old ELSE summary_of(collector)

PrintSummary ==
    /\ pc = "summary"
    /\ summary' = print_summary(files, summary)
    /\ IF files # <<>> THEN print(<<"summary">>) ELSE UNCHANGED console
    /\ pc' = IF mode = "main" THEN "finally" ELSE "returned"
    /\ UNCHANGED <<mode, API_ID, args, scraper, files, scanned, fs, connects,
                   disconnects, uncaught, call>>

\* main(), lines 256-259
Except ==
    /\ pc = "except"
    /\ print(<<"error">>)
    /\ pc' = "finally"
    /\ UNCHANGED <<mode, API_ID, args, scraper, files, scanned, fs, summary,
                   connects, disconnects, uncaught, call>>

\* main(), lines 260-261: `await scraper.close()`.  With `scraper` unbound
\* the name lookup raises UnboundLocalError out of main().
Finally ==
    /\ pc = "finally"
    /\ IF scraper
       THEN /\ disconnects' = disconnects + 1
            /\ print(<<"disconnected">>)
            /\ UNCHANGED uncaught
       ELSE /\ uncaught' = TRUE
            /\ UNCHANGED <<disconnects, console>>
    /\ pc' = "done"
    /\ UNCHANGED <<mode, API_ID, args, scraper, files, scanned, fs, summary,
                   connects, call>>

Next ==
    \/ Construct
    \/ Connect
    \/ GetEntity
    \/ IterMessage
    \/ IterEnd
    \/ IterFail
    \/ ExportCsv
    \/ ExportJson
    \/ PrintSummary
    \/ Except
    \/ Finally

Spec == Init /\ [][Next]_vars

---------------------------------------------------------------------------
(* Direct calls of the pure methods, on inputs drawn from bounded sets *)

Idle(m) ==
    /\ mode = m
    /\ API_ID = TRUE
    /\ args = [limit |-> 0, types |-> None,
               output |-> <<"o", ".", "c", "s", "v">>, json |-> FALSE]
    /\ scraper = TRUE
    /\ scanned = <<>>
    /\ fs = [p \in Paths |-> NoFile]
    /\ console = <<>>
    /\ summary = NoSummary
    /\ connects = 0
    /\ disconnects = 0
    /\ uncaught = FALSE

RECURSIVE StringsUpTo(_, _)
StringsUpTo(chars, n) ==
    IF n = 0 THEN {<<>>}
    ELSE LET shorter == StringsUpTo(chars, n - 1)
         IN  shorter \cup { Append(s, c) : s \in shorter, c \in chars }

\* is_target_file(filename, file_types)
NameChars == {".", "p", "y", "Y", "x"}
Filenames == {None} \cup { Str(s) : s \in StringsUpTo(NameChars, MaxNameLen) }
Extensions == { <<".", "y">>, <<".", "Y">>, <<".", "p", "y">>, <<"x">> }
FileTypeLists ==
    {None} \cup { TypeList(<<e>>) : e \in Extensions }
           \cup { TypeList(<<e1, e2>>) : e1 \in Extensions, e2 \in Extensions }

InitClassifier ==
    /\ Idle("is_target_file")
    /\ pc = "call"
    /\ files = <<>>
    /\ call \in [fn : {"is_target_file"}, filename : Filenames,
                 file_types : FileTypeLists, result : {FALSE}]

CallIsTargetFile ==
    /\ pc = "call"
    /\ mode = "is_target_file"
    /\ call' = [call EXCEPT !.result = is_target_file(call.filename, call.file_types)]
    /\ pc' = "returned"
    /\ UNCHANGED <<mode, API_ID, args, scraper, files, scanned, fs, console,
                   summary, connects, disconnects, uncaught>>

NextClassifier == CallIsTargetFile

SpecClassifier == InitClassifier /\ [][NextClassifier]_vars

\* _get_sender_name(message)
AttrValues == {NoAttr, None, Str(<<>>), Str(<<"A", "l">>)}
Senders ==
    {NoSender} \cup
    { Sender(f, l, u) : f \in AttrValues,
                        l \in {NoAttr, None, Str(<<>>), Str(<<"B", "o">>)},
                        u \in {NoAttr, None, Str(<<>>), Str(<<"u", "s", "r">>)} }

InitSender ==
    /\ Idle("_get_sender_name")
    /\ pc = "call"
    /\ files = <<>>
    /\ call \in [fn : {"_get_sender_name"}, sender : Senders, result : {None}]

CallGetSenderName ==
    /\ pc = "call"
    /\ mode = "_get_sender_name"
    /\ call' = [call EXCEPT !.result = _get_sender_name(call.sender)]
    /\ pc' = "returned"
    /\ UNCHANGED <<mode, API_ID, args, scraper, files, scanned, fs, console,
                   summary, connects, disconnects, uncaught>>

NextSender == CallGetSenderName

SpecSender == InitSender /\ [][NextSender]_vars

\* print_summary() on a Collector of up to MaxFiles records
SummarySizes == {0, 150}
Collectors ==
    UNION { { [i \in 1..n |->
                 [filename |-> <<"a", ".", "z", "i", "p">>,
                  message_id |-> n + 1 - i,
                  sender |-> Str(<<"A", "l">>),
                  file_size_mb |-> size[i]]] : size \in [1..n -> SummarySizes] }
            : n \in 0..MaxFiles }

InitSummary ==
    /\ Idle("print_summary")
    /\ pc = "summary"
    /\ files \in Collectors
    /\ call = NoCall

NextSummary == PrintSummary

SpecSummary == InitSummary /\ [][NextSummary]_vars

---------------------------------------------------------------------------
(* Properties *)

Has(line) == \E i \in 1..Len(console) : console[i] = line
Count(line) == Cardinality({ i \in 1..Len(console) : console[i] = line })

\* No file was created, truncated or written
Untouched == fs \in FreshFs

ConnectFailed == Has("connecting") /\ ~Has("connected")
ResolveFailed == Has("error_getting_group")
\* The loop was entered and left without reaching line 133
IterationFailed == Has("group") /\ ~Has("found") /\ pc # "iter"
\* scrape_group returned to main()
ScrapeReturned == Has("found") \/ ResolveFailed

\* C1: every run of main(), whichever step fails, ends with the failure
\* printed, the session disconnected exactly once and no uncaught
\* exception; with missing credentials no connection is attempted.
C1_MainAlwaysDisconnects ==
    pc = "done" =>
        /\ disconnects = 1
        /\ ~uncaught
        /\ (~API_ID => connects = 0 /\ Has("error"))
        /\ (ConnectFailed => Has("error"))
        /\ (IterationFailed => Has("error"))

\* A scanned message that carries a document with a non-empty filename the
\* classifier accepts
Qualifies(message) ==
    /\ message.media = "document"
    /\ Truthy(ResolveFilename(message.doc))
    /\ is_target_file(ResolveFilename(message.doc), args.types)

\* C2: when scrape_group completes on a resolved channel, at most `limit`
\* messages were scanned and the Collector holds one record for each scanned
\* message that carries a document with a non-empty filename the classifier
\* accepts, in stream order, and nothing else.
C2_ScrapeCollectsQualifying ==
    Has("found") =>
        LET q == SelectSeq(scanned, Qualifies)
        IN  /\ Len(scanned) <= args.limit
            /\ Len(files) = Len(q)
            /\ \A i \in 1..Len(q) :
                  /\ files[i].message_id = q[i].id
                  /\ files[i].filename = ResolveFilename(q[i].doc).s

C2_Witness ==
    /\ Has("found")
    /\ Len(scanned) = 3
    /\ Len(files) = 2
    /\ scanned[1].media = "photo"
    /\ files[1].message_id > files[2].message_id

\* C3: when resolving the channel fails, scrape_group returns normally: the
\* Collector is as before the call, no message is iterated, main() goes on to
\* the exporters, which write nothing, and to the disconnect.
C3_ResolveFailureReturns ==
    ResolveFailed =>
        /\ pc \in {"export_csv", "export_json", "summary", "finally", "done"}
        /\ files = <<>>
        /\ scanned = <<>>
        /\ Untouched
        /\ ~Has("error")
        /\ (pc = "done" =>
               /\ Count("no_files_to_export") = (IF args.json THEN 2 ELSE 1)
               /\ disconnects = 1
               /\ ~uncaught)

C3_Witness == ResolveFailed /\ pc = "done" /\ args.json /\ disconnects = 1

\* C4: when message iteration fails after k records were appended, the
\* failure reaches main()'s handler, the loop is not entered again, and no
\* CSV file, JSON file or summary is produced in that run.
C4_IterationFailureNotPersisted ==
    IterationFailed =>
        /\ pc \in {"except", "finally", "done"}
        /\ Untouched
        /\ ~summary.printed
        /\ ~Has("exported")
        /\ (pc \in {"finally", "done"} => Has("error"))

C4_Witness == IterationFailed /\ pc = "done" /\ Len(files) = 2

\* A step of export_csv or export_json: what it writes, and self.files after
C5_ExportStep ==
    /\ (pc \in {"export_csv", "export_json"} => files' = files)
    /\ (pc = "export_csv" /\ files # <<>> /\ pc' = AfterExportCsv =>
          LET f == fs'[args.output]
          IN  /\ f.kind = "csv"
              /\ Len(f.rows) = Len(files)
              /\ \A i \in 1..Len(files) :
                    /\ f.rows[i][1] = files[i].filename
                    /\ f.rows[i][2] = files[i].message_id
                    /\ f.rows[i][4] = files[i].file_size_mb)
    /\ (pc = "export_json" /\ files # <<>> /\ pc' = AfterExportJson =>
          LET f == fs'[json_path(args.output)]
          IN  /\ f.kind = "json"
              /\ Len(f.rows) = Len(files)
              /\ \A i \in 1..Len(files) : f.rows[i] = files[i]
              /\ (json_path(args.output) # args.output =>
                    /\ fs'[args.output].kind = "csv"
                    /\ Len(fs'[args.output].rows) = Len(f.rows)))

\* C5: on a non-empty Collector export_csv writes one data row per record
\* and export_json one array element per record, the i-th describing the
\* i-th record, so both counts equal the number of records; neither exporter
\* changes the Collector.
C5_ExportsMirrorCollector == [][C5_ExportStep]_vars

C5_Witness ==
    /\ pc = "summary"
    /\ Len(files) = 3
    /\ fs[args.output].kind = "csv"
    /\ json_path(args.output) # args.output
    /\ fs[json_path(args.output)].kind = "json"

\* The path without its extension (the last "." and what follows)
RECURSIVE StripExtension(_)
StripExtension(path) ==
    IF path = <<>> THEN <<>>
    ELSE IF path[Len(path)] = "." THEN SubSeq(path, 1, Len(path) - 1)
         ELSE StripExtension(SubSeq(path, 1, Len(path) - 1))

BaseName(path) ==
    IF \E i \in 1..Len(path) : path[i] = "." THEN StripExtension(path) ELSE path

\* C6: with --json and a non-empty Collector, for every --output path the
\* JSON file is written at the CSV path's base name plus ".json", a path
\* other than the CSV path, so the CSV file keeps its CSV content.
C6_JsonBesideCsv ==
    (args.json /\ Count("exported") = 2) =>
        LET expected == BaseName(args.output) \o <<".", "j", "s", "o", "n">>
        IN  /\ json_path(args.output) = expected
            /\ expected # args.output
            /\ fs[expected].kind = "json"
            /\ fs[args.output].kind = "csv"

\* The sender name by the priority order: first name, username, "Unknown"
Unknown == Str(<<"U", "n", "k", "n", "o", "w", "n">>)

HasValue(sender, attr) == sender[attr] # NoAttr /\ Truthy(sender[attr])

ExpectedSenderName(sender) ==
    IF sender = NoSender THEN Unknown
    ELSE IF HasValue(sender, "first_name")
         THEN IF HasValue(sender, "last_name")
              THEN Str(sender.first_name.s \o <<" ">> \o sender.last_name.s)
              ELSE sender.first_name
         ELSE IF HasValue(sender, "username")
              THEN Str(<<"@">> \o sender.username.s)
              ELSE Unknown

\* C7: _get_sender_name returns "Unknown" without a sender; the first name,
\* with " " and the last name when that is non-empty, for a sender with a
\* first name; else "@" + username for a non-empty username; else
\* "Unknown".  The result is always a non-empty string.
C7_SenderNamePriority ==
    (mode = "_get_sender_name" /\ pc = "returned") =>
        /\ call.result = ExpectedSenderName(call.sender)
        /\ Truthy(call.result)

\* C8: is_target_file is false for an empty or absent filename and otherwise
\* true exactly when the filename ends, letter case ignored, with an
\* extension of the allow-list (the default list when none is given).
C8_CaseInsensitiveSuffix ==
    (mode = "is_target_file" /\ pc = "returned") =>
        LET types == IF call.file_types = None THEN DefaultFileTypes
                     ELSE call.file_types.list
        IN  call.result =
               (/\ Truthy(call.filename)
                /\ \E i \in 1..Len(types) :
                      EndsWith(Lower(call.filename.s), Lower(types[i])))

\* C9: with an empty Collector export_csv and export_json write no file and
\* raise nothing, only warn; print_summary prints nothing; the run goes on
\* normally through the disconnect.
C9_EmptyCollectorWritesNothing ==
    (ScrapeReturned /\ files = <<>>) =>
        /\ pc \in {"export_csv", "export_json", "summary", "finally", "done"}
        /\ Untouched
        /\ ~summary.printed
        /\ ~Has("summary")
        /\ ~Has("exported")
        /\ ~Has("error")
        /\ (pc \in {"finally", "done"} =>
               Count("no_files_to_export") = (IF args.json THEN 2 ELSE 1))
        /\ (pc = "done" => disconnects = 1 /\ ~uncaught)

C9_Witness ==
    /\ Has("found")
    /\ Len(scanned) = 3
    /\ files = <<>>
    /\ args.json
    /\ \E p \in Paths : fs[p].kind = "old"
    /\ pc = "done"

\* Where a record stands in the Collector
Position(record) == CHOOSE i \in 1..Len(files) : files[i] = record

\* A step of print_summary: the list it prints, and self.files after
C10_SummaryStep ==
    (pc = "summary" /\ pc' # "summary") =>
        LET top == summary'.top
            n == Len(files)
            listed == { top[k] : k \in 1..Len(top) }
        IN  /\ files' = files
            /\ Len(top) = (IF n < 10 THEN n ELSE 10)
            /\ Cardinality(listed) = Len(top)
            /\ \A k \in 1..Len(top) : \E i \in 1..n : files[i] = top[k]
            /\ \A j, k \in 1..Len(top) :
                  j < k =>
                     /\ top[j].file_size_mb >= top[k].file_size_mb
                     /\ (top[j].file_size_mb = top[k].file_size_mb =>
                            Position(top[j]) < Position(top[k]))
            /\ \A i \in 1..n :
                  files[i] \notin listed =>
                     \A k \in 1..Len(top) :
                        /\ top[k].file_size_mb >= files[i].file_size_mb
                        /\ (top[k].file_size_mb = files[i].file_size_mb =>
                               Position(top[k]) < i)

\* C10: print_summary's top list holds min(10, n) records of the Collector,
\* largest first, no excluded record larger than a listed one, records of
\* equal size in Collector order (the listed ones being the earliest of
\* them); the Collector is left as it was.
C10_TopTenStable == [][C10_SummaryStep]_vars

C10_Witness ==
    /\ mode = "print_summary"
    /\ pc = "returned"
    /\ Len(files) = 11
    /\ Len(summary.top) = 10
    /\ files[1].file_size_mb < files[11].file_size_mb
    /\ files[2].file_size_mb = files[11].file_size_mb

===========================================================================
